---- MODULE Spec2Model ----
(***************************************************************************)
(* MA-VCG: round-based allocation of IoT tasks to edge nodes by per-task   *)
(* second-price (Vickrey) auctions.                                        *)
(*                                                                         *)
(* Units.  The program works on floats; the model works on exact integers. *)
(*   cpu, memory, deadline, link weight : half units (value * 2)           *)
(*   cost, bid_value, price, welfare    : value * MoneyScale               *)
(* so every comparison the code makes between costs is made here on the    *)
(* same rationals, without floating-point rounding.  math.exp is the one   *)
(* function with no exact integer form: ExpNeg is a rational approximant.  *)
(***************************************************************************)
EXTENDS Integers, Sequences, FiniteSets, TLC

VARIABLES
    network,               \* nx.Graph: function from edges {u, v} to weight
    dev_type,              \* IoTDevice.type, per device id
    capacity,              \* EdgeNode.capacity, per node id
    available,             \* EdgeNode.available, per node id
    pending_tasks,         \* IoTDevice.pending_tasks, per device id
    task_count,            \* number of tasks created so far (fresh task ids)
    pc,                    \* position in EdgeComputingSystem.run
    round,                 \* loop index of `for _ in range(n_rounds)`, from 1
    dev_idx,               \* position in `for dev in self.devices`, from 1
    all_requests,          \* local all_requests of run
    allocations,           \* first result of Auctioneer.run
    rejections,            \* second result of Auctioneer.run
    alloc_idx,             \* position in `for req, winner, price in allocations`
    welfare,               \* local welfare of run
    per_device_allocated,  \* local per_device_allocated of run
    metrics,               \* local metrics of run, one record per finished round
    exc                    \* the exception that escaped run, "" when none

vars == <<network, dev_type, capacity, available, pending_tasks, task_count, pc,
          round, dev_idx, all_requests, allocations, rejections, alloc_idx,
          welfare, per_device_allocated, metrics, exc>>

(***************************************************************************)
(* Bounds of the model.                                                    *)
(***************************************************************************)
NumNodes == 2
NumDevices == 2
MaxRounds == 3

Nodes == 0 .. (NumNodes - 1)
Devices == NumNodes .. (NumNodes + NumDevices - 1)
Vertices == Nodes \cup Devices

\* self.devices, in list order
DeviceAt(i) == NumNodes + i - 1

(***************************************************************************)
(* Input values, each inside the range the program draws it from.          *)
(***************************************************************************)
DeviceTypes == {"sensor", "camera", "generic"}

\* random.uniform(20.0, 40.0): 20.0 and 30.0
CpuCapacities == {40, 60}
\* random.uniform(32.0, 64.0): 32.0
MemoryCapacities == {64}
\* random.uniform(1.0, 5.0): 2.0
NodeLinkWeights == {4}
\* random.uniform(0.5, 2.0): 0.5 and 1.5
DeviceLinkWeights == {1, 3}

\* The demands generate_task may draw for a device of type t.
TaskDraws(t) ==
    CASE t = "sensor" ->
           {[cpu |-> 1, memory |-> 1, deadline |-> 4, data_size |-> 4, priority |-> 1]}
      [] t = "camera" ->
           {[cpu |-> 16, memory |-> 24, deadline |-> 2, data_size |-> 40, priority |-> 3],
            [cpu |-> 8, memory |-> 16, deadline |-> 4, data_size |-> 20, priority |-> 2]}
      [] OTHER ->
           {[cpu |-> 2, memory |-> 4, deadline |-> 6, data_size |-> 8, priority |-> 5]}

(***************************************************************************)
(* Arithmetic helpers.                                                     *)
(***************************************************************************)
RECURSIVE Gcd(_, _)
Gcd(a, b) == IF b = 0 THEN a ELSE Gcd(b, a % b)

RECURSIVE LcmOf(_)
LcmOf(S) ==
    IF S = {} THEN 1
    ELSE LET x == CHOOSE y \in S : TRUE
             r == LcmOf(S \ {x})
         IN (x * r) \div Gcd(x, r)

SetMin(S) == CHOOSE x \in S : \A y \in S : x <= y

RECURSIVE SeqSum(_)
SeqSum(s) == IF s = <<>> THEN 0 ELSE Head(s) + SeqSum(Tail(s))

\* A common multiple of every capacity["cpu"], so that load ** 2 is an integer
\* number of 1 / (CapUnit * CapUnit).
CapUnit == LcmOf(CpuCapacities)
\* Money values are value * MoneyScale: 200 covers the price constants
\* (0.2, 0.05, 0.01 * 2.0, 0.1 on half units), CapUnit * CapUnit the load.
MoneyScale == 200 * CapUnit * CapUnit

(***************************************************************************)
(* data.py: the two value objects.                                         *)
(***************************************************************************)
IoTTask(task_id, cpu, memory, deadline, data_size, priority) ==
    [task_id |-> task_id, cpu |-> cpu, memory |-> memory, deadline |-> deadline,
     data_size |-> data_size, priority |-> priority]

ResourceRequest(device_id, task, bid_value) ==
    [device_id |-> device_id, task |-> task, bid_value |-> bid_value]

(***************************************************************************)
(* networkx: the graph queries the program makes.                          *)
(***************************************************************************)
\* network.has_edge(u, v)
HasEdge(u, v) == {u, v} \in DOMAIN network

\* network[u][v]['weight']
Weight(u, v) == network[{u, v}]

\* One round of relaxation of the distances known so far: dist is a function
\* from the vertices reached to their best known distance.
RelaxOnce(dist) ==
    LET reached == DOMAIN dist
        next == reached \cup {v \in Vertices : \E u \in reached : HasEdge(u, v)}
        Via(v) == {dist[u] + Weight(u, v) : u \in {x \in reached : HasEdge(x, v)}}
    IN [v \in next |->
          SetMin((IF v \in reached THEN {dist[v]} ELSE {}) \cup Via(v))]

RECURSIVE Relax(_, _)
Relax(dist, k) == IF k = 0 THEN dist ELSE Relax(RelaxOnce(dist), k - 1)

\* nx.shortest_path_length(network, u, v, weight='weight'); found = FALSE is
\* nx.NetworkXNoPath.
ShortestPathLength(u, v) ==
    LET dist == Relax([x \in {u} |-> 0], Cardinality(Vertices) - 1)
    IN IF v \in DOMAIN dist
       THEN [found |-> TRUE, length |-> dist[v]]
       ELSE [found |-> FALSE, length |-> 0]

(***************************************************************************)
(* agents.py: IoTDevice.                                                   *)
(***************************************************************************)
\* math.exp(-n / d) in hundredths, rounded down: the approximant
\* 1 / (1 + x + x^2 / 2) of exp(-x), positive and decreasing in x >= 0.
ExpNeg(n, d) == (100 * 2 * d * d) \div (2 * d * d + 2 * n * d + n * n)

\* utility_for_task, on best_latency: expected_completion = best_latency +
\* task.cpu / 10 and energy_cost = best_latency * 0.1 are the two values
\* build_requests passes.
UtilityForTask(task, best_latency) ==
    LET time_penalty == ExpNeg(10 * best_latency + task.cpu, 10 * task.deadline)
        base == task.priority * (task.cpu + task.memory)
    IN base * time_penalty * (MoneyScale \div 200)
       - best_latency * (MoneyScale \div 20)

\* The weights build_requests takes the minimum of.
DirectLatencies(d) == {Weight(d, p) : p \in {n \in Nodes : HasEdge(d, n)}}

\* build_requests raises when min() is handed an empty sequence, which it is
\* asked for once per pending task.
BuildRequestsRaises(d, tasks) == tasks # <<>> /\ DirectLatencies(d) = {}

\* A build_requests that bids for the newest task only.
BuildRequestsNewest(d, tasks) ==
    <<ResourceRequest(d, tasks[Len(tasks)],
                      UtilityForTask(tasks[Len(tasks)], SetMin(DirectLatencies(d))))>>

\* build_requests, when it returns.
BuildRequests(d, tasks) ==
    [i \in 1 .. Len(tasks) |->
        ResourceRequest(d, tasks[i], UtilityForTask(tasks[i], SetMin(DirectLatencies(d))))]

(***************************************************************************)
(* agents.py: EdgeNode.                                                    *)
(***************************************************************************)
NoBid == [bid |-> FALSE, cost |-> 0]

\* A cost function that also refuses a demand equal to what is available.
CostForStrict(p, req, avail, cap) ==
    LET cpu == req.task.cpu
        mem == req.task.memory
        k == CapUnit \div cap.cpu
        load == k * (cap.cpu - avail.cpu)
        base == 20 * cpu + 5 * mem
        loaded == base * (CapUnit * CapUnit + load * load)
        energy == 2 * cpu * CapUnit * CapUnit
        path == ShortestPathLength(p, req.device_id)
    IN IF cpu >= avail.cpu \/ mem >= avail.memory THEN NoBid
       ELSE IF HasEdge(p, req.device_id)
       THEN [bid |-> TRUE,
             cost |-> loaded + energy + Weight(p, req.device_id) * 10 * CapUnit * CapUnit]
       ELSE IF path.found
       THEN [bid |-> TRUE, cost |-> loaded + energy + path.length * 10 * CapUnit * CapUnit]
       ELSE NoBid

\* cost_for_request of node p in state (avail, cap) of that node.
CostFor(p, req, avail, cap) ==
    LET cpu == req.task.cpu
        mem == req.task.memory
        k == CapUnit \div cap.cpu
        \* load = 1 - available / capacity, in 1 / CapUnit
        load == k * (cap.cpu - avail.cpu)
        \* cpu * 0.2 + mem * 0.05, times 200 on half units
        base == 20 * cpu + 5 * mem
        loaded == base * (CapUnit * CapUnit + load * load)
        energy == 2 * cpu * CapUnit * CapUnit
        path == ShortestPathLength(p, req.device_id)
    IN IF cpu > avail.cpu \/ mem > avail.memory THEN NoBid
       ELSE IF HasEdge(p, req.device_id)
       THEN [bid |-> TRUE,
             cost |-> loaded + energy + Weight(p, req.device_id) * 10 * CapUnit * CapUnit]
       ELSE IF path.found
       THEN [bid |-> TRUE, cost |-> loaded + energy + path.length * 10 * CapUnit * CapUnit]
       ELSE NoBid

\* p.cost_for_request(req, network) on the provider's current state
CostForRequest(p, req) == CostFor(p, req, available[p], capacity[p])

\* A book-keeping that credits the demands instead of debiting them.
AllocateCredit(avail, req) ==
    [cpu |-> avail.cpu + req.task.cpu, memory |-> avail.memory + req.task.memory]

\* A book-keeping that debits the cpu and forgets the memory.
AllocateCpuOnly(avail, req) ==
    [cpu |-> avail.cpu - req.task.cpu, memory |-> avail.memory]

\* EdgeNode.allocate
Allocate(avail, req) ==
    [cpu |-> avail.cpu - req.task.cpu, memory |-> avail.memory - req.task.memory]

(***************************************************************************)
(* auction.py: Auctioneer.                                                 *)
(***************************************************************************)
\* An insertion that keeps the list in descending order of cost.
RECURSIVE InsertBidDescending(_, _)
InsertBidDescending(sorted, b) ==
    IF sorted = <<>> THEN <<b>>
    ELSE IF Head(sorted).cost >= b.cost
         THEN <<Head(sorted)>> \o InsertBidDescending(Tail(sorted), b)
         ELSE <<b>> \o sorted

\* list.sort(key=cost) is stable: b goes behind every bid that costs no more.
RECURSIVE InsertBid(_, _)
InsertBid(sorted, b) ==
    IF sorted = <<>> THEN <<b>>
    ELSE IF Head(sorted).cost <= b.cost
         THEN <<Head(sorted)>> \o InsertBid(Tail(sorted), b)
         ELSE <<b>> \o sorted

\* A bid list left in the order the bids came in.
SortBidsNot(bids) == bids

RECURSIVE SortBids(_)
SortBids(bids) ==
    IF bids = <<>> THEN <<>>
    ELSE InsertBid(SortBids(SubSeq(bids, 1, Len(bids) - 1)), bids[Len(bids)])

\* The bids collected for req, in the order of the provider list.
RECURSIVE CollectBids(_, _)
CollectBids(req, n) ==
    IF n = 0 THEN <<>>
    ELSE LET p == n - 1
             c == CostForRequest(p, req)
         IN CollectBids(req, n - 1)
            \o (IF c.bid THEN <<[provider |-> p, cost |-> c.cost]>> ELSE <<>>)

\* The bids collected for req from the first n providers of a provider list.
RECURSIVE CollectBidsFrom(_, _, _)
CollectBidsFrom(req, providers, n) ==
    IF n = 0 THEN <<>>
    ELSE LET p == providers[n]
             c == CostForRequest(p, req)
         IN CollectBidsFrom(req, providers, n - 1)
            \o (IF c.bid THEN <<[provider |-> p, cost |-> c.cost]>> ELSE <<>>)

\* A first-price rule: the winner is paid its own cost.
PayPriceFirst(bids) == bids[1].cost

\* A second-price rule with nothing to pay a lone bidder.
PayPriceNoSecond(bids) == IF Len(bids) > 1 THEN bids[2].cost ELSE 0

\* pay_price = bids[1][1] if len(bids) > 1 else win_cost, on the sorted bids
PayPrice(bids) == IF Len(bids) > 1 THEN bids[2].cost ELSE bids[1].cost

\* The reason Auctioneer.run gives with a rejection
RejectReason == "no provider"

\* A loop body that skips a request without bids and records nothing.
ClearRequestSilently(out, req) ==
    LET bids == CollectBids(req, NumNodes)
        sorted == SortBids(bids)
    IN IF Len(bids) < 1 THEN out
       ELSE [out EXCEPT !.allocations =
                Append(@, [request |-> req, winner |-> sorted[1].provider,
                           price |-> PayPrice(sorted)])]

\* A loop body that puts each result at the front of its list.
ClearRequestInFront(out, req) ==
    LET bids == CollectBids(req, NumNodes)
        sorted == SortBids(bids)
    IN IF Len(bids) < 1
       THEN [out EXCEPT !.rejections =
                <<[request |-> req, reason |-> RejectReason]>> \o @]
       ELSE [out EXCEPT !.allocations =
                <<[request |-> req, winner |-> sorted[1].provider,
                   price |-> PayPrice(sorted)]>> \o @]

\* The body of `for req in requests`, on the two lists built so far
ClearRequest(out, req) ==
    LET bids == CollectBids(req, NumNodes)
        sorted == SortBids(bids)
    IN IF Len(bids) < 1
       THEN [out EXCEPT !.rejections =
                Append(@, [request |-> req, reason |-> RejectReason])]
       ELSE [out EXCEPT !.allocations =
                Append(@, [request |-> req, winner |-> sorted[1].provider,
                           price |-> PayPrice(sorted)])]

\* What the body of `for req in requests` decides for req when self.providers
\* is the list providers: no bid, or the winner and the price to pay.
ClearingOver(req, providers) ==
    LET bids == CollectBidsFrom(req, providers, Len(providers))
        sorted == SortBids(bids)
    IN IF Len(bids) < 1
       THEN [bid |-> FALSE, winner |-> 0, price |-> 0]
       ELSE [bid |-> TRUE, winner |-> sorted[1].provider, price |-> PayPrice(sorted)]

\* Auctioneer.run on the first n requests: (allocations, rejections)
RECURSIVE AuctioneerRun(_, _)
AuctioneerRun(requests, n) ==
    IF n = 0 THEN [allocations |-> <<>>, rejections |-> <<>>]
    ELSE ClearRequest(AuctioneerRun(requests, n - 1), requests[n])

(***************************************************************************)
(* environment.py: EdgeComputingSystem.                                    *)
(***************************************************************************)
\* The links _init_topology may give one device: random.sample of 1 to
\* min(3, len(nodes)) nodes, each with a weight.
DeviceLinks ==
    UNION {[S -> DeviceLinkWeights] :
             S \in {T \in SUBSET Nodes : Cardinality(T) >= 1 /\ Cardinality(T) <= 3}}

\* Any links at all, the empty set included: a graph handed to build_requests
\* and cost_for_request by a caller other than _init_topology.
AnyDeviceLinks == UNION {[S -> DeviceLinkWeights] : S \in SUBSET Nodes}

NodePairs == {{a, b} : a, b \in Nodes} \ {{a} : a \in Nodes}

\* The node-to-node links _init_topology may make: any set of pairs, weighted.
NodeLinks == UNION {[E -> NodeLinkWeights] : E \in SUBSET NodePairs}

\* The graph made of node-to-node links nn and per-device links dl.
Topology(nn, dl) ==
    LET devEdges == {e \in {{d, n} : d \in Devices, n \in Nodes} :
                        \E d \in Devices : \E n \in DOMAIN dl[d] : e = {d, n}}
    IN [e \in DOMAIN nn \cup devEdges |->
          IF e \in DOMAIN nn THEN nn[e]
          ELSE LET d == CHOOSE x \in e : x \in Devices
                   n == CHOOSE x \in e : x \in Nodes
               IN dl[d][n]]

\* jain_index, as the fraction num / den (1.0 is 1 / 1)
JainIndexWithoutN(values) ==
    LET s == SeqSum(values)
        sq == SeqSum([i \in 1 .. Len(values) |-> values[i] * values[i]])
    IN IF sq = 0 THEN [num |-> 1, den |-> 1] ELSE [num |-> s * s, den |-> sq]

JainIndex(values) ==
    LET n == Len(values)
        s == SeqSum(values)
        sq == SeqSum([i \in 1 .. n |-> values[i] * values[i]])
    IN IF n = 0 THEN [num |-> 1, den |-> 1]
       ELSE IF sq = 0 THEN [num |-> 1, den |-> 1]
       ELSE [num |-> s * s, den |-> n * sq]

\* A removal that leaves the list as it is.
RemoveNothing(s, x) == s

\* A removal that empties the list.
RemoveAll(s, x) == <<>>

\* list.remove(x): without the first element equal to x
RECURSIVE RemoveFirst(_, _)
RemoveFirst(s, x) ==
    IF s = <<>> THEN <<>>
    ELSE IF Head(s) = x THEN Tail(s)
    ELSE <<Head(s)>> \o RemoveFirst(Tail(s), x)

InSeq(s, x) == \E i \in 1 .. Len(s) : s[i] = x

\* The state EdgeComputingSystem.__init__ leaves, on the graph g.
Constructed(g) ==
    /\ network = g
    /\ dev_type \in [Devices -> DeviceTypes]
    /\ \E cpu \in [Nodes -> CpuCapacities] : \E mem \in [Nodes -> MemoryCapacities] :
          capacity = [n \in Nodes |-> [cpu |-> cpu[n], memory |-> mem[n]]]
    /\ available = capacity
    /\ pending_tasks = [d \in Devices |-> <<>>]
    /\ task_count = 0
    /\ pc = "generate"
    /\ round = 1
    /\ dev_idx = 1
    /\ all_requests = <<>>
    /\ allocations = <<>>
    /\ rejections = <<>>
    /\ alloc_idx = 1
    /\ welfare = 0
    /\ per_device_allocated = [d \in Devices |-> 0]
    /\ metrics = <<>>
    /\ exc = ""

\* EdgeComputingSystem(n_nodes, n_devices), then run(n_rounds) entered
Init == \E nn \in NodeLinks : \E dl \in [Devices -> DeviceLinks] :
            Constructed(Topology(nn, dl))

\* run step 1, for one device: dev.generate_task() and
\* all_requests.extend(dev.build_requests(...)).
GenerateTask ==
    /\ pc = "generate"
    /\ LET d == DeviceAt(dev_idx) IN
       \E draw \in TaskDraws(dev_type[d]) :
          LET task == IoTTask(task_count + 1, draw.cpu, draw.memory, draw.deadline,
                              draw.data_size, draw.priority)
              tasks == Append(pending_tasks[d], task)
              batch == IF dev_idx = 1 THEN <<>> ELSE all_requests
          IN /\ pending_tasks' = [pending_tasks EXCEPT ![d] = tasks]
             /\ task_count' = task_count + 1
             /\ IF BuildRequestsRaises(d, tasks)
                THEN /\ exc' = "ValueError"
                     /\ pc' = "raised"
                     /\ all_requests' = batch
                     /\ dev_idx' = dev_idx
                ELSE /\ exc' = exc
                     /\ all_requests' = batch \o BuildRequests(d, tasks)
                     /\ dev_idx' = IF dev_idx = NumDevices THEN 1 ELSE dev_idx + 1
                     /\ pc' = IF dev_idx = NumDevices THEN "auction" ELSE "generate"
    /\ UNCHANGED <<network, dev_type, capacity, available, round, allocations,
                   rejections, alloc_idx, welfare, per_device_allocated, metrics>>

\* run step 2, and the two resets that open step 3.
Clear ==
    /\ pc = "auction"
    /\ LET out == AuctioneerRun(all_requests, Len(all_requests))
       IN /\ allocations' = out.allocations
          /\ rejections' = out.rejections
    /\ welfare' = 0
    /\ per_device_allocated' = [d \in Devices |-> 0]
    /\ alloc_idx' = 1
    /\ pc' = "apply"
    /\ UNCHANGED <<network, dev_type, capacity, available, pending_tasks, task_count,
                   round, dev_idx, all_requests, metrics, exc>>

\* A welfare term that forgets the price paid.
WelfareTermBidOnly(a) == a.request.bid_value

\* req.bid_value - price, the term run adds to welfare for one allocation
WelfareTerm(a) == a.request.bid_value - a.price

\* run step 3, for one allocation.
ApplyAllocation ==
    /\ pc = "apply"
    /\ alloc_idx <= Len(allocations)
    /\ LET a == allocations[alloc_idx]
           req == a.request
           dev == req.device_id
       IN /\ available' = [available EXCEPT ![a.winner] = Allocate(@, req)]
          /\ per_device_allocated' = [per_device_allocated EXCEPT ![dev] = @ + 1]
          /\ welfare' = welfare + WelfareTerm(a)
          /\ IF InSeq(pending_tasks[dev], req.task)
             THEN /\ pending_tasks' =
                       [pending_tasks EXCEPT ![dev] = RemoveFirst(@, req.task)]
                  /\ alloc_idx' = alloc_idx + 1
                  /\ UNCHANGED <<pc, exc>>
             ELSE /\ exc' = "ValueError"
                  /\ pc' = "raised"
                  /\ UNCHANGED <<pending_tasks, alloc_idx>>
    /\ UNCHANGED <<network, dev_type, capacity, task_count, round, dev_idx,
                   all_requests, allocations, rejections, metrics>>

\* An efficiency over the tasks left pending instead of over all tasks.
AllocationEffOverPending(allocated, total_tasks) ==
    IF total_tasks # 0
    THEN [num |-> allocated, den |-> total_tasks - allocated]
    ELSE [num |-> 1, den |-> 1]

\* alloc_eff, as the fraction num / den (1.0 is 1 / 1)
AllocationEff(allocated, total_tasks) ==
    IF total_tasks # 0
    THEN [num |-> allocated, den |-> total_tasks]
    ELSE [num |-> 1, den |-> 1]

\* A loop over the allocations that can be left at any point.
AllAppliedOrNot == TRUE

\* `for req, winner, price in allocations` has run out of allocations
AllApplied == alloc_idx > Len(allocations)

\* run step 4, and the step to the next round or out of the loop.  The means
\* run returns are functions of metrics and are not kept in the state.
RoundMetrics ==
    /\ pc = "apply"
    /\ AllApplied
    /\ LET counts == [i \in 1 .. NumDevices |-> per_device_allocated[DeviceAt(i)]]
           total_tasks == SeqSum([i \in 1 .. NumDevices |->
                                    Len(pending_tasks[DeviceAt(i)]) + counts[i]])
           alloc_eff == AllocationEff(SeqSum(counts), total_tasks)
       IN metrics' = Append(metrics, [social_welfare |-> welfare,
                                      allocation_eff |-> alloc_eff,
                                      fairness |-> JainIndex(counts)])
    /\ IF round < MaxRounds
       THEN round' = round + 1 /\ pc' = "generate"
       ELSE round' = round /\ pc' = "done"
    /\ UNCHANGED <<network, dev_type, capacity, available, pending_tasks, task_count,
                   dev_idx, all_requests, allocations, rejections, alloc_idx, welfare,
                   per_device_allocated, exc>>

Next == GenerateTask \/ Clear \/ ApplyAllocation \/ RoundMetrics

Spec == Init /\ [][Next]_vars

\* EdgeComputingSystem.run on a graph some other caller built: a device may
\* have no link at all.
InitAnyGraph == \E nn \in NodeLinks : \E dl \in [Devices -> AnyDeviceLinks] :
                    Constructed(Topology(nn, dl))

SpecAnyGraph == InitAnyGraph /\ [][Next]_vars

(***************************************************************************)
(* Vocabulary of the properties.                                           *)
(***************************************************************************)
\* The providers that return a cost for req in the current state.
Bidders(req) == {p \in Nodes : CostForRequest(p, req).bid}

BidCost(p, req) == CostForRequest(p, req).cost

\* Auctioneer.run has returned and no allocation is applied yet: the providers
\* are in the state the requests were costed against.
JustCleared == pc = "apply" /\ alloc_idx = 1

\* An allocation is about to be applied.
Applying == pc = "apply" /\ alloc_idx <= Len(allocations)

\* v can be reached from u along edges of the graph.
RECURSIVE ReachableFrom(_, _)
ReachableFrom(S, k) ==
    IF k = 0 THEN S
    ELSE ReachableFrom(S \cup {v \in Vertices : \E u \in S : {u, v} \in DOMAIN network},
                       k - 1)

Connected(u, v) == v \in ReachableFrom({u}, Cardinality(Vertices))

\* The demand of the allocation about to be applied no longer fits its winner.
NoLongerFits(a) ==
    \/ a.request.task.cpu > available[a.winner].cpu
    \/ a.request.task.memory > available[a.winner].memory

(***************************************************************************)
(* C1.  Capacity invariant: every provider always has                      *)
(* 0 <= available.cpu <= capacity.cpu and 0 <= available.memory <=         *)
(* capacity.memory, also when several requests of one round are awarded to *)
(* the same provider.                                                      *)
(***************************************************************************)
C1_CapacityInvariant ==
    \A p \in Nodes :
        /\ 0 <= available[p].cpu /\ available[p].cpu <= capacity[p].cpu
        /\ 0 <= available[p].memory /\ available[p].memory <= capacity[p].memory

(***************************************************************************)
(* C2.  Feasibility is re-validated at application time: an allocation     *)
(* whose demand exceeds what its winner has left is not applied: the       *)
(* provider's available, the consumer's pending_tasks, the allocated count *)
(* and the welfare all stay as they are.                                   *)
(***************************************************************************)
C2_RevalidatedAtApplication ==
    [][(Applying /\ NoLongerFits(allocations[alloc_idx]))
         => /\ available' = available
            /\ pending_tasks' = pending_tasks
            /\ per_device_allocated' = per_device_allocated
            /\ welfare' = welfare]_vars

(***************************************************************************)
(* C3.  Second-price clearing: a request with at least two bids is         *)
(* allocated to a provider of minimum cost, at a price equal to the        *)
(* second-lowest cost of the bid list, which is the lowest cost among the  *)
(* bids of the other providers.                                            *)
(***************************************************************************)
C3_SecondPrice ==
    JustCleared =>
        \A i \in 1 .. Len(all_requests) :
            LET req == all_requests[i]
                B == Bidders(req)
            IN Cardinality(B) >= 2 =>
                 \E j \in 1 .. Len(allocations) :
                    LET a == allocations[j]
                    IN /\ a.request = req
                       /\ a.winner \in B
                       /\ \A p \in B : BidCost(a.winner, req) <= BidCost(p, req)
                       /\ a.price = SetMin({BidCost(p, req) : p \in B \ {a.winner}})

\* A request with two bids of different cost was cleared above the winner's cost.
C3_Witness ==
    /\ JustCleared
    /\ \E j \in 1 .. Len(allocations) :
          LET a == allocations[j]
          IN /\ Cardinality(Bidders(a.request)) >= 2
             /\ a.price > BidCost(a.winner, a.request)

(***************************************************************************)
(* C4.  Single bidder: a request for which exactly one provider returns a  *)
(* cost c is allocated to that provider at price exactly c.                *)
(***************************************************************************)
C4_SingleBidder ==
    JustCleared =>
        \A i \in 1 .. Len(all_requests) :
            LET req == all_requests[i]
                B == Bidders(req)
            IN Cardinality(B) = 1 =>
                 \E j \in 1 .. Len(allocations) :
                    /\ allocations[j].request = req
                    /\ allocations[j].winner \in B
                    /\ allocations[j].price = BidCost(allocations[j].winner, req)

\* A request with one bid was cleared.
C4_Witness ==
    /\ JustCleared
    /\ \E j \in 1 .. Len(allocations) : Cardinality(Bidders(allocations[j].request)) = 1

(***************************************************************************)
(* C5.  No-bid rejection.  As claimed: a request every provider refuses    *)
(* is in the rejection list with reason no_provider, and has no            *)
(* allocation.  The code gives the reason as the string "no provider".     *)
(***************************************************************************)
RejectedFor(req, reason) ==
    /\ Cardinality({j \in 1 .. Len(rejections) : rejections[j].request = req}) = 1
    /\ \A j \in 1 .. Len(rejections) :
          rejections[j].request = req => rejections[j].reason = reason
    /\ \A j \in 1 .. Len(allocations) : allocations[j].request # req

C6_Conservation ==
    [][Applying =>
         LET a == allocations[alloc_idx]
             w == a.winner
             t == a.request.task
             dev == a.request.device_id
         IN /\ available'[w].cpu = available[w].cpu - t.cpu
            /\ available'[w].memory = available[w].memory - t.memory
            /\ \A p \in Nodes \ {w} : available'[p] = available[p]
            /\ InSeq(pending_tasks[dev], t) /\ ~InSeq(pending_tasks'[dev], t)
            /\ Len(pending_tasks'[dev]) = Len(pending_tasks[dev]) - 1
            /\ \A i \in 1 .. Len(pending_tasks[dev]) :
                  pending_tasks[dev][i] # t => InSeq(pending_tasks'[dev], pending_tasks[dev][i])
            /\ \A d \in Devices \ {dev} : pending_tasks'[d] = pending_tasks[d]]_vars

\* The first allocation of the run has been applied: its winner lost the
\* task's demand and the task left its consumer's queue.
C6_Witness ==
    /\ pc = "apply" /\ round = 1 /\ alloc_idx = 2
    /\ LET a == allocations[1]
       IN /\ available[a.winner].cpu = capacity[a.winner].cpu - a.request.task.cpu
          /\ available[a.winner].memory = capacity[a.winner].memory - a.request.task.memory
          /\ ~InSeq(pending_tasks[a.request.device_id], a.request.task)

(***************************************************************************)
(* C7.  Unallocated tasks are never dropped: a pending task leaves its     *)
(* consumer's pending_tasks only by the application of its own allocation, *)
(* so a task without a bid in round r is still pending at the end of the   *)
(* round; every batch handed to the auctioneer, in every later round too,  *)
(* holds a request for every pending task; and a rejection never aborts    *)
(* the run.                                                                *)
(***************************************************************************)
HasRequest(d, t) ==
    \E i \in 1 .. Len(all_requests) :
        all_requests[i].device_id = d /\ all_requests[i].task = t

C7_StaysPending ==
    \A d \in Devices : \A i \in 1 .. Len(pending_tasks[d]) :
        \/ InSeq(pending_tasks'[d], pending_tasks[d][i])
        \/ Applying /\ allocations[alloc_idx].request.task = pending_tasks[d][i]

C7_RebidAndRunning ==
    /\ pc = "auction" => \A d \in Devices : \A i \in 1 .. Len(pending_tasks[d]) :
                            HasRequest(d, pending_tasks[d][i])
    /\ pc = "apply" => \A j \in 1 .. Len(rejections) :
                          InSeq(pending_tasks[rejections[j].request.device_id],
                                rejections[j].request.task)
    /\ rejections # <<>> => pc # "raised"

\* C7: a pending task is never dropped, is re-bid in every batch, and a
\* rejection never aborts the run.
C7_NeverDropped == [](C7_RebidAndRunning) /\ [][C7_StaysPending]_vars

\* A task rejected in an earlier round is pending and has a request again.
C7_Witness ==
    /\ pc = "auction"
    /\ \E d \in Devices : \E i \in 1 .. Len(pending_tasks[d]) :
          /\ pending_tasks[d][i].task_id <= (round - 1) * NumDevices
          /\ HasRequest(d, pending_tasks[d][i])

(***************************************************************************)
(* C8.  Round lifecycle: in every round each consumer generates exactly    *)
(* one new task, appended to its pending_tasks, and the batch handed to    *)
(* the auctioneer holds exactly one request per pending task, leftovers of *)
(* earlier rounds included: a consumer with u leftover tasks contributes   *)
(* u + 1 requests.                                                         *)
(***************************************************************************)
RequestsOf(d) == SelectSeq(all_requests, LAMBDA r : r.device_id = d)

\* The tasks created in the current round.
BornThisRound(t) ==
    t.task_id > (round - 1) * NumDevices /\ t.task_id <= round * NumDevices

\* C8: when the batch is complete, every consumer has generated one task this
\* round and has one request per pending task, in order.
C8_RoundLifecycle ==
    pc = "auction" =>
        /\ task_count = round * NumDevices
        /\ \A d \in Devices :
              LET q == pending_tasks[d]
                  r == RequestsOf(d)
              IN /\ Len(q) >= 1
                 /\ BornThisRound(q[Len(q)])
                 /\ \A i \in 1 .. (Len(q) - 1) : ~BornThisRound(q[i])
                 /\ Len(r) = Len(q)
                 /\ \A i \in 1 .. Len(q) : r[i].task = q[i]
        /\ Len(all_requests) = SeqSum([i \in 1 .. NumDevices |->
                                         Len(pending_tasks[DeviceAt(i)])])

\* A consumer with a leftover task has built its requests.
C8_Witness ==
    /\ pc = "auction"
    /\ \E d \in Devices : Len(pending_tasks[d]) >= 2 /\ Len(RequestsOf(d)) >= 2

(***************************************************************************)
(* C9.  build_requests on a consumer with pending tasks and no direct edge *)
(* to any provider yields no request for them and does not raise: the      *)
(* round goes on and the tasks stay pending.                               *)
(***************************************************************************)
C9_NoEdgeNoRequest ==
    [][(pc = "generate" /\ DirectLatencies(DeviceAt(dev_idx)) = {})
         => /\ pc' # "raised"
            /\ exc' = ""
            /\ RequestsOf(DeviceAt(dev_idx))' = <<>>
            /\ \A i \in 1 .. Len(pending_tasks[DeviceAt(dev_idx)]) :
                  InSeq(pending_tasks'[DeviceAt(dev_idx)],
                        pending_tasks[DeviceAt(dev_idx)][i])]_vars

(***************************************************************************)
(* C10.  cost_for_request refuses exactly when the cpu demand exceeds      *)
(* available.cpu, or the memory demand exceeds available.memory, or the    *)
(* provider and the consumer are not connected in the graph; a demand      *)
(* equal to what is available is not refused; and a cost it returns is     *)
(* never negative.  In every state, for every request of the batch.        *)
(***************************************************************************)
C10_RefusalAndCost ==
    \A p \in Nodes : \A i \in 1 .. Len(all_requests) :
        LET req == all_requests[i]
            c == CostForRequest(p, req)
        IN /\ c.bid = ~(\/ req.task.cpu > available[p].cpu
                        \/ req.task.memory > available[p].memory
                        \/ ~Connected(p, req.device_id))
           /\ c.bid => c.cost >= 0

\* A provider bids for a request whose cpu demand is all it has left, and one
\* bids without a direct edge to the consumer.
C10_Witness ==
    /\ \E p \in Nodes : \E i \in 1 .. Len(all_requests) :
          /\ all_requests[i].task.cpu = available[p].cpu
          /\ all_requests[i].task.memory = available[p].memory
          /\ CostForRequest(p, all_requests[i]).bid
    /\ \E p \in Nodes : \E i \in 1 .. Len(all_requests) :
          /\ ~HasEdge(p, all_requests[i].device_id)
          /\ CostForRequest(p, all_requests[i]).bid

(***************************************************************************)
(* Vocabulary of the round metrics.                                        *)
(***************************************************************************)
\* A round has been closed and the next clearing has not happened: allocations
\* and per_device_allocated are still those of the round metrics records last.
RoundClosed == metrics # <<>> /\ pc \in {"generate", "auction", "done"}

\* The round has just been closed: pending_tasks is still what the application
\* loop left behind.
RoundJustClosed ==
    /\ metrics # <<>>
    /\ (pc = "generate" /\ dev_idx = 1) \/ pc = "done"

LastMetrics == metrics[Len(metrics)]

\* The sum over the first n allocations of bid_value - clearing price.
RECURSIVE SurplusOf(_, _)
SurplusOf(allocs, n) ==
    IF n = 0 THEN 0
    ELSE SurplusOf(allocs, n - 1) + allocs[n].request.bid_value - allocs[n].price

\* The tasks pending over all consumers.
PendingTotal == SeqSum([i \in 1 .. NumDevices |-> Len(pending_tasks[DeviceAt(i)])])

(***************************************************************************)
(* C11.  Welfare additivity: welfare starts from 0 in each round, is at    *)
(* every point of the application loop the sum of bid_value - clearing     *)
(* price over the allocations applied so far, and is recorded for the      *)
(* round as that sum over exactly the allocations of the round; rejected   *)
(* requests and tasks left pending add nothing.                            *)
(***************************************************************************)
C11_WelfareAdditivity ==
    /\ JustCleared => welfare = 0
    /\ pc = "apply" => welfare = SurplusOf(allocations, alloc_idx - 1)
    /\ RoundClosed => LastMetrics.social_welfare = SurplusOf(allocations, Len(allocations))

\* A round with an allocation, a rejection and a task left pending has been
\* closed with a welfare other than 0.
C11_Witness ==
    /\ RoundJustClosed
    /\ Len(allocations) >= 1 /\ rejections # <<>> /\ PendingTotal >= 1
    /\ LastMetrics.social_welfare # 0

(***************************************************************************)
(* C12.  Allocation efficiency of a round is allocated_count_total /       *)
(* (allocated_count_total + tasks still pending after application); it is  *)
(* 1.0 when that denominator is 0, is never a division by zero, and lies   *)
(* in [0, 1].                                                              *)
(***************************************************************************)
C12_AllocationEfficiency ==
    /\ AllocationEff(0, 0) = [num |-> 1, den |-> 1]
    /\ RoundJustClosed =>
          LET e == LastMetrics.allocation_eff
          IN /\ e.den > 0
             /\ 0 <= e.num /\ e.num <= e.den
             /\ IF Len(allocations) + PendingTotal = 0
                THEN e.num = e.den
                ELSE e.num * (Len(allocations) + PendingTotal) = Len(allocations) * e.den

\* A round was closed with some tasks allocated and some left pending.
C12_Witness ==
    /\ RoundJustClosed
    /\ Len(allocations) >= 1 /\ PendingTotal >= 1
    /\ LastMetrics.allocation_eff.num < LastMetrics.allocation_eff.den

(***************************************************************************)
(* C13.  Jain bounds.  jain_index is a function of the vector alone, so    *)
(* it is examined on every vector of up to MaxJainLen counts in            *)
(* 0 .. MaxJainCount, and on the vector each round hands to it.            *)
(***************************************************************************)
MaxJainLen == 3
MaxJainCount == 3

JainInputs == UNION {[1 .. n -> 0 .. MaxJainCount] : n \in 0 .. MaxJainLen}

\* list(per_device_allocated.values()), in the order of self.devices
Counts == [i \in 1 .. NumDevices |-> per_device_allocated[DeviceAt(i)]]

AllEqual(v) == \A i, k \in 1 .. Len(v) : v[i] = v[k]

AllZero(v) == \A i \in 1 .. Len(v) : v[i] = 0

NonzeroEqual(v) == \A i, k \in 1 .. Len(v) : v[i] # 0 /\ v[k] # 0 => v[i] = v[k]

\* 0 < jain <= 1, and jain is 1 by convention on the empty and the all-zero
\* vector.
JainInBounds(v) ==
    LET j == JainIndex(v)
    IN /\ j.den > 0 /\ 0 < j.num /\ j.num <= j.den
       /\ AllZero(v) => j = [num |-> 1, den |-> 1]

\* The bounds, and jain = 1 exactly on the vectors of equal entries, over all
\* vectors of JainInputs.
JainOnInputs ==
    \A v \in JainInputs :
       /\ JainInBounds(v)
       /\ JainIndex(v).num = JainIndex(v).den <=> AllEqual(v)

\* C13 as claimed: the fairness recorded for a round is 1 exactly when all
\* nonzero allocation counts of the round are equal.
C13_OneIffNonzeroEqual ==
    RoundClosed =>
       (LastMetrics.fairness.num = LastMetrics.fairness.den <=> NonzeroEqual(Counts))

\* C13, amended: for every vector of non-negative counts 0 < jain <= 1, jain is
\* 1 on the empty and the all-zero vector, and jain is 1 exactly when all
\* entries of the vector, the zero ones included, are equal; the fairness a
\* round records is jain_index of the round's allocation counts.
C13_JainBounds ==
    /\ JainOnInputs
    /\ RoundClosed =>
          /\ LastMetrics.fairness = JainIndex(Counts)
          /\ JainInBounds(Counts)
          /\ LastMetrics.fairness.num = LastMetrics.fairness.den <=> AllEqual(Counts)

\* A round closed with one consumer served and the other not: the nonzero
\* counts are equal and the recorded fairness is below 1.
C13_Witness ==
    /\ RoundClosed
    /\ ~AllEqual(Counts) /\ NonzeroEqual(Counts)
    /\ LastMetrics.fairness.num < LastMetrics.fairness.den

(***************************************************************************)
(* C14.  Static-availability costing: capacity never changes; available    *)
(* changes in the application step only, and there it never grows;         *)
(* building the requests, clearing and the metrics leave the providers as  *)
(* they are, so that one clearing pass costs every request of the batch    *)
(* against the availability the round began with: each allocation goes to  *)
(* a cheapest bidder under that availability at one of the costs bid under *)
(* it, and each rejected request has no bidder under it.                   *)
(***************************************************************************)
C14_StaticAvailability ==
    [][/\ capacity' = capacity
       /\ ~Applying => available' = available
       /\ Applying =>
             \A p \in Nodes : /\ available'[p].cpu <= available[p].cpu
                              /\ available'[p].memory <= available[p].memory
       /\ pc = "auction" =>
             /\ \A j \in 1 .. Len(allocations') :
                   LET a == allocations'[j]
                   IN /\ a.winner \in Bidders(a.request)
                      /\ \A p \in Bidders(a.request) :
                            BidCost(a.winner, a.request) <= BidCost(p, a.request)
                      /\ \E p \in Bidders(a.request) : a.price = BidCost(p, a.request)
             /\ \A j \in 1 .. Len(rejections') :
                   Bidders(rejections'[j].request) = {}]_vars

\* Two requests of one batch went to the same provider, the second costed
\* against the availability of the start of the round: once the first is
\* applied that provider would ask another price for it, or none.
C14_Witness ==
    /\ pc = "apply" /\ alloc_idx = 2 /\ Len(allocations) >= 2
    /\ allocations[1].winner = allocations[2].winner
    /\ available[allocations[1].winner] # capacity[allocations[1].winner]
    /\ \A p \in Bidders(allocations[2].request) :
          allocations[2].price # BidCost(p, allocations[2].request)

(***************************************************************************)
(* C15.  Order independence of the clearing price: whatever the order of   *)
(* the provider list, Auctioneer.run allocates the same requests at the    *)
(* same clearing prices and rejects the same requests, ties between costs  *)
(* included; only the winner may depend on the order.                      *)
(***************************************************************************)
\* The orders the provider list can have.
ProviderOrders ==
    {s \in [1 .. NumNodes -> Nodes] : \A i, k \in 1 .. NumNodes : i # k => s[i] # s[k]}

C15_OrderIndependentPrice ==
    JustCleared =>
       /\ \A j \in 1 .. Len(allocations) : \A order \in ProviderOrders :
             LET c == ClearingOver(allocations[j].request, order)
             IN c.bid /\ c.price = allocations[j].price
       /\ \A j \in 1 .. Len(rejections) : \A order \in ProviderOrders :
             ~ClearingOver(rejections[j].request, order).bid

\* A request was cleared between two providers bidding the same cost: the
\* other order of the list names the other winner at the same price, while a
\* second request of the batch had two unequal bids.
C15_Witness ==
    /\ JustCleared
    /\ \E j \in 1 .. Len(allocations) : \E order \in ProviderOrders :
          LET a == allocations[j]
              c == ClearingOver(a.request, order)
          IN /\ c.winner # a.winner /\ c.price = a.price
             /\ BidCost(c.winner, a.request) = BidCost(a.winner, a.request)
    /\ \E j \in 1 .. Len(allocations) :
          LET a == allocations[j]
          IN \E p \in Bidders(a.request) : BidCost(p, a.request) # BidCost(a.winner, a.request)

(***************************************************************************)
(* C16.  Round-synchronous phase ordering: clearing begins only when the   *)
(* last consumer of the round has generated its task and built its bids;   *)
(* clearing is over, as one step that applies nothing, before the first    *)
(* allocation is applied; and a round is left, and anything of the next    *)
(* round generated, bid or costed, only when every allocation of the round *)
(* has been applied.                                                       *)
(***************************************************************************)
C16_PhaseOrdering ==
    [][/\ pc \in {"generate", "auction"} => alloc_idx > Len(allocations)
       /\ pc' = "auction" =>
             /\ pc = "generate" /\ dev_idx = NumDevices
             /\ task_count' = round * NumDevices
             /\ \A d \in Devices :
                   Len(SelectSeq(all_requests', LAMBDA r : r.device_id = d))
                      = Len(pending_tasks'[d])
       /\ pc = "auction" =>
             /\ pc' = "apply" /\ alloc_idx' = 1
             /\ available' = available /\ pending_tasks' = pending_tasks
       /\ (task_count' # task_count \/ all_requests' # all_requests) => pc = "generate"
       /\ (allocations' # allocations \/ rejections' # rejections) => pc = "auction"
       /\ (available' # available \/ alloc_idx' > alloc_idx) => pc = "apply"
       /\ (pc = "apply" /\ pc' \in {"generate", "done"}) => alloc_idx > Len(allocations)
       /\ round' # round =>
             /\ round' = round + 1 /\ pc = "apply" /\ pc' = "generate" /\ dev_idx' = 1
             /\ alloc_idx > Len(allocations)]_vars

\* The second round is generating, after a first round whose two allocations
\* have both been applied.
C16_Witness ==
    /\ pc = "generate" /\ round = 2 /\ dev_idx = 2
    /\ Len(allocations) >= 2 /\ alloc_idx = Len(allocations) + 1
    /\ task_count = NumDevices + 1

(***************************************************************************)
(* C17.  Auctioneer.run partitions the batch: every request of the batch   *)
(* is in exactly one of the two outputs, once (never in both, in neither,  *)
(* or twice), and the allocations and the rejections each list their       *)
(* requests in the order of the batch.                                     *)
(***************************************************************************)
AllocatedRequests == [j \in 1 .. Len(allocations) |-> allocations[j].request]

RejectedRequests == [j \in 1 .. Len(rejections) |-> rejections[j].request]

Occurrences(s, x) == Cardinality({i \in 1 .. Len(s) : s[i] = x})

C17_Partition ==
    JustCleared =>
       /\ \A i \in 1 .. Len(all_requests) :
             Occurrences(AllocatedRequests, all_requests[i])
                + Occurrences(RejectedRequests, all_requests[i])
             = Occurrences(all_requests, all_requests[i])
       /\ Len(AllocatedRequests) + Len(RejectedRequests) = Len(all_requests)
       /\ \A i \in 1 .. Len(all_requests) :
             Occurrences(AllocatedRequests, all_requests[i]) = 0
                \/ Occurrences(RejectedRequests, all_requests[i]) = 0
       /\ AllocatedRequests
             = SelectSeq(all_requests, LAMBDA r : Occurrences(AllocatedRequests, r) > 0)
       /\ RejectedRequests
             = SelectSeq(all_requests, LAMBDA r : Occurrences(RejectedRequests, r) > 0)

\* A batch of at least three requests was split into two or more allocations
\* and a rejection, the rejected request not being the last of the batch.
C17_Witness ==
    /\ JustCleared
    /\ Len(allocations) >= 2 /\ Len(rejections) >= 1
    /\ rejections[1].request # all_requests[Len(all_requests)]

(***************************************************************************)
(* C18.  Individual rationality: the clearing price of every allocation is *)
(* at least the winner's own bid cost, and equals it only when the winner  *)
(* was the single bidder or another bidder bid the same cost.              *)
(***************************************************************************)
C18_IndividualRationality ==
    JustCleared =>
       \A j \in 1 .. Len(allocations) :
          LET a == allocations[j]
              own == BidCost(a.winner, a.request)
          IN /\ a.winner \in Bidders(a.request)
             /\ a.price >= own
             /\ a.price = own =>
                   \/ Bidders(a.request) = {a.winner}
                   \/ \E p \in Bidders(a.request) \ {a.winner} : BidCost(p, a.request) = own

\* One batch holds an allocation paid above the winner's cost and an
\* allocation between two bidders paid at the winner's cost, the two tied.
C18_Witness ==
    /\ JustCleared
    /\ \E j \in 1 .. Len(allocations) :
          allocations[j].price > BidCost(allocations[j].winner, allocations[j].request)
    /\ \E j \in 1 .. Len(allocations) :
          /\ Cardinality(Bidders(allocations[j].request)) = 2
          /\ allocations[j].price = BidCost(allocations[j].winner, allocations[j].request)

(***************************************************************************)
(* C19.  Every allocation applied is for a task still in the pending_tasks *)
(* of the consumer its request names: no task is in two allocations of a   *)
(* round, an applied task is gone from its queue and so is never bid       *)
(* again, the device lookup and pending_tasks.remove never raise, and a    *)
(* consumer's allocated count of a round never exceeds the number of tasks *)
(* it had pending when the requests were built.                            *)
(***************************************************************************)
C19_AppliedTaskPending ==
    /\ pc # "raised" /\ exc = ""
    /\ \A d \in Devices : \A i, k \in 1 .. Len(pending_tasks[d]) :
          i # k => pending_tasks[d][i] # pending_tasks[d][k]
    /\ pc = "apply" =>
          /\ \A j, k \in 1 .. Len(allocations) :
                j # k => allocations[j].request.task # allocations[k].request.task
          /\ \A j \in 1 .. Len(allocations) :
                LET dev == allocations[j].request.device_id
                    t == allocations[j].request.task
                IN /\ dev \in Devices
                   /\ j >= alloc_idx => InSeq(pending_tasks[dev], t)
                   /\ j < alloc_idx =>
                         /\ ~InSeq(pending_tasks[dev], t)
                         /\ \A d \in Devices : ~InSeq(pending_tasks[d], t)
          /\ \A d \in Devices :
                /\ per_device_allocated[d] <= Len(RequestsOf(d))
                /\ per_device_allocated[d] + Len(pending_tasks[d]) = Len(RequestsOf(d))
    /\ pc \in {"generate", "auction"} =>
          \A j \in 1 .. Len(allocations) : \A d \in Devices :
             ~InSeq(pending_tasks[d], allocations[j].request.task)

\* A consumer that had two tasks pending when the requests were built has had
\* one of them allocated and applied, the other still in its queue.
C19_Witness ==
    /\ pc = "apply" /\ alloc_idx > Len(allocations)
    /\ \E d \in Devices :
          /\ Len(RequestsOf(d)) = 2
          /\ per_device_allocated[d] = 1 /\ Len(pending_tasks[d]) = 1

====
